---- MODULE Spec2Model ----
(***************************************************************************)
(* A model of HttpClient (src/src/HttpClient.ts) and HttpResult            *)
(* (src/src/HttpResult.ts): the static request operations, the request     *)
(* pipeline built by sendRequest / downloadFile on bluebird promises, the   *)
(* response decoder parseResponse, the header builder, the payload encoder  *)
(* and safeCancelRequest.                                                   *)
(*                                                                         *)
(* Environment (not code of the repository):                                *)
(*  - fetch: settles once, with a Response or with a rejection;             *)
(*    Response.ok is status in 200..299; json()/text()/blob() return        *)
(*    promises; a reader called on a consumed body returns a rejected       *)
(*    promise (it does not throw).                                          *)
(*  - bluebird promises with cancellation enabled: a promise is pending,    *)
(*    fulfilled, rejected or cancelled; resolve/reject/cancel act only on   *)
(*    a pending promise; an executor that throws rejects the promise.       *)
(*  - Date: a millisecond clock, read by new Date().                        *)
(***************************************************************************)
EXTENDS Integers, Sequences, FiniteSets, TLC

(***************************************************************************)
(* Bounds of the model.                                                    *)
(***************************************************************************)
\* the calls made through one variable of the caller
MaxCalls == 1
\* the last reading of the clock
MaxClock == 1

\* The variables in which the caller keeps the promise a request operation
\* returned.  A variable takes the promise of a new call once the pipeline of
\* the call it held has run to its end.
Handles == {"h1", "h2"}

(***************************************************************************)
(* Optional values: undefined is the empty sequence.                       *)
(***************************************************************************)
Undefined == << >>
Some(v) == << v >>
IsDefined(o) == o # Undefined
Get(o) == o[1]

(***************************************************************************)
(* Enumerations.                                                           *)
(***************************************************************************)
\* enum PayloadType { None, Json, UrlEncoded, MultipartFormData }; a missing
\* payloadType argument is "undefined".  None is 0, hence falsy.
PayloadTypes == {"None", "Json", "UrlEncoded", "MultipartFormData"}
PayloadTypeArgs == PayloadTypes \cup {"undefined"}
\* enum ResponseType { None, Json, Text }
ResponseTypes == {"None", "Json", "Text"}
\* HTTPMethod values used by the client
HTTPMethods == {"GET", "POST", "PATCH", "PUT", "DELETE"}
\* enum HttpHeader / HttpContentType
ContentType == "Content-Type"
ContentDisposition == "Content-Disposition"
HttpContentTypeJson == "application/json"
HttpContentTypeFormUrlEncoded == "application/x-www-form-urlencoded"

(***************************************************************************)
(* Characters and strings.  A text whose characters matter (a form value,   *)
(* a Content-Disposition value) is a sequence of one-character strings.     *)
(***************************************************************************)
RECURSIVE Concat(_)
Concat(cs) == IF cs = << >> THEN "" ELSE Head(cs) \o Concat(Tail(cs))

(***************************************************************************)
(* Header sets.  A Headers object lives in the heap (a sequence of header   *)
(* lists); a reference is its index.  Headers.append adds an entry at the   *)
(* end and keeps every entry already there.                                 *)
(***************************************************************************)
HeadersAppend(list, name, value) == Append(list, << name, value >>)

ValuesOf(list, name) == SelectSeq(list, LAMBDA e : e[1] = name)

\* Headers.delete removes every entry of the name
HeadersDelete(list, name) == SelectSeq(list, LAMBDA e : e[1] # name)

\* buildRequestHeaders handing out one default Headers object, the last of the
\* heap, when no headers are passed
buildRequestHeadersSharedDefault(hp, payloadType, href) ==
  LET base == IF IsDefined(href)
                THEN [heap |-> hp, ref |-> Get(href)]
                ELSE IF hp = << >>
                  THEN [heap |-> << << >> >>, ref |-> 1]
                  ELSE [heap |-> hp, ref |-> Len(hp)]
      r    == base.ref
      with(value) == [heap |-> [base.heap EXCEPT ![r] =
                                  HeadersAppend(@, ContentType, value)],
                      ref |-> r]
  IN  CASE payloadType = "Json" -> with(HttpContentTypeJson)
        [] payloadType = "UrlEncoded" -> with(HttpContentTypeFormUrlEncoded)
        [] OTHER -> base

\* buildRequestHeaders naming a Content-Type for multipart form data as well
buildRequestHeadersMultipart(hp, payloadType, href) ==
  LET base == IF IsDefined(href)
                THEN [heap |-> hp, ref |-> Get(href)]
                ELSE [heap |-> Append(hp, << >>), ref |-> Len(hp) + 1]
      r    == base.ref
      with(value) == [heap |-> [base.heap EXCEPT ![r] =
                                  HeadersAppend(@, ContentType, value)],
                      ref |-> r]
  IN  CASE payloadType = "Json" -> with(HttpContentTypeJson)
        [] payloadType = "UrlEncoded" -> with(HttpContentTypeFormUrlEncoded)
        [] payloadType = "MultipartFormData" -> with("multipart/form-data")
        [] OTHER -> base

\* buildRequestHeaders(payloadType, headers): hp is the heap, href the optional
\* reference passed by the caller.  Returns the new heap and the reference of
\* the header set handed back.
buildRequestHeaders(hp, payloadType, href) ==
  LET base == IF IsDefined(href)
                THEN [heap |-> hp, ref |-> Get(href)]
                ELSE [heap |-> Append(hp, << >>), ref |-> Len(hp) + 1]
      r    == base.ref
  IN  CASE payloadType = "Json" ->
             [heap |-> [base.heap EXCEPT ![r] =
                          HeadersAppend(@, ContentType, HttpContentTypeJson)],
              ref |-> r]
        [] payloadType = "UrlEncoded" ->
             [heap |-> [base.heap EXCEPT ![r] =
                          HeadersAppend(@, ContentType, HttpContentTypeFormUrlEncoded)],
              ref |-> r]
        [] payloadType = "MultipartFormData" -> base
        [] OTHER -> base

(***************************************************************************)
(* JavaScript values.  Every value is a record with a kind, so that any two  *)
(* values can be compared.  null stands for a missing payload (null or       *)
(* undefined: both are falsy).                                               *)
(***************************************************************************)
JsNull == [kind |-> "null"]
JsString(s) == [kind |-> "string", s |-> s]
\* the object {id: n}
JsObject(n) == [kind |-> "object", id |-> n]
\* an object holding a reference to itself
JsCyclic == [kind |-> "cyclic"]
\* a flat mapping; entries are << key, value >> in Object.keys order, the value
\* being the characters of String(dict[key])
JsDict(entries) == [kind |-> "dict", entries |-> entries]
\* a FormData instance
JsFormData == [kind |-> "formdata"]

\* payload ? ... : undefined  -- null and undefined are falsy, objects truthy
Truthy(v) == v.kind # "null"

\* Errors: a name, an optional status, a message.
JsError(name, message) == [name |-> name, message |-> message, status |-> Undefined]
\* createHttpError(status, message) of http-errors
createHttpError(status, message) ==
  [name |-> "HttpError", message |-> message, status |-> Some(status)]

CyclicError == JsError("TypeError", "Converting circular structure to JSON")
FetchError == JsError("TypeError", "Failed to fetch")
JsonSyntaxError == JsError("SyntaxError", "Unexpected token in JSON")
BodyReadError == JsError("TypeError", "network error while reading the body")
BodyUsedError == JsError("TypeError", "body used already")

(***************************************************************************)
(* JSON.  Objects of the model are {id: n}, n in 1..MaxId.                  *)
(***************************************************************************)
MaxId == 2

JsonText(n) == "{\"id\":" \o ToString(n) \o "}"

\* JSON.stringify(value): the text, or the TypeError it throws
JsonStringify(v) ==
  CASE v.kind = "cyclic" -> [error |-> Some(CyclicError), text |-> ""]
    [] v.kind = "object" -> [error |-> Undefined, text |-> JsonText(v.id)]
    [] v.kind = "null"   -> [error |-> Undefined, text |-> "null"]
    [] OTHER             -> [error |-> Undefined, text |-> "{}"]

\* JSON.parse(text) as Response.json() does it: the value, or a SyntaxError
JsonParse(text) ==
  IF text = "null"
    THEN [error |-> Undefined, value |-> JsNull]
    ELSE IF \E n \in 1 .. MaxId : text = JsonText(n)
      THEN [error |-> Undefined,
            value |-> JsObject(CHOOSE n \in 1 .. MaxId : text = JsonText(n))]
      ELSE [error |-> Some(JsonSyntaxError), value |-> JsNull]

(***************************************************************************)
(* Payload Encoder.                                                        *)
(***************************************************************************)
\* encodeURIComponent on one character: unreserved characters are kept, every
\* other character becomes its percent-encoded UTF-8 bytes
Unreserved == {"a", "b", "x", "y", "1", "2", "-", "_", ".", "!", "~", "*", "'", "(", ")"}

EncodeURIChar(c) ==
  CASE c \in Unreserved -> c
    [] c = " " -> "%20"
    [] c = "&" -> "%26"
    [] c = "=" -> "%3D"
    [] c = "+" -> "%2B"
    [] c = "%" -> "%25"
    [] c = "/" -> "%2F"

RECURSIVE encodeURIComponent(_)
encodeURIComponent(cs) ==
  IF cs = << >> THEN "" ELSE EncodeURIChar(Head(cs)) \o encodeURIComponent(Tail(cs))

\* the loop writing '&' before every entry, the first one included
RECURSIVE EncodeEntriesAmpFirst(_, _)
EncodeEntriesAmpFirst(entries, values) ==
  IF entries = << >>
    THEN values
    ELSE LET e == Head(entries)
         IN  EncodeEntriesAmpFirst(Tail(entries),
                                   values \o "&" \o e[1] \o "=" \o encodeURIComponent(e[2]))

\* the for loop of the UrlEncoded case, from the values accumulated so far
RECURSIVE EncodeEntries(_, _)
EncodeEntries(entries, values) ==
  IF entries = << >>
    THEN values
    ELSE LET e   == Head(entries)
             sep == IF values # "" THEN values \o "&" ELSE values
         IN  EncodeEntries(Tail(entries), sep \o e[1] \o "=" \o encodeURIComponent(e[2]))

\* encodePayload(payload, payloadType): the body, or the error thrown
encodePayload(payload, payloadType) ==
  CASE payloadType = "Json" ->
         LET j == JsonStringify(payload)
         IN  [error |-> j.error, body |-> JsString(j.text)]
    [] payloadType = "UrlEncoded" ->
         [error |-> Undefined, body |-> JsString(EncodeEntries(payload.entries, ""))]
    [] OTHER ->
         [error |-> Undefined, body |-> payload]

(***************************************************************************)
(* Result Envelope (HttpResult).                                           *)
(***************************************************************************)
\* new HttpResult(method, url), the clock reading t
NewHttpResult(method, url, t) ==
  [request |-> [method |-> method, url |-> url],
   initiatedAt |-> t,
   completedAt |-> Undefined,
   duration |-> Undefined,
   data |-> Undefined]

\* applyData that leaves the duration out
applyDataNoDuration(result, data, t) ==
  [result EXCEPT !.data = Some(data),
                 !.completedAt = Some(t)]

\* applyData that subtracts the wrong way round
applyDataReversed(result, data, t) ==
  [result EXCEPT !.data = Some(data),
                 !.completedAt = Some(t),
                 !.duration = Some(result.initiatedAt - t)]

\* result.applyData(data), the clock reading t
applyData(result, data, t) ==
  [result EXCEPT !.data = Some(data),
                 !.completedAt = Some(t),
                 !.duration = Some(t - result.initiatedAt)]

(***************************************************************************)
(* Raw responses.  ok is derived from the status, as fetch does.           *)
(***************************************************************************)
ResponseOk(response) == response.status \in 200 .. 299

(***************************************************************************)
(* Response Decoder: the callback parseResponse(method, responseType)       *)
(* returns, run on a response.                                              *)
(***************************************************************************)
\* The switch has no break and no return: control enters at the matching case
\* and runs every statement after it.  Statements, in source order:
\*   resolve(response.text()); resolve(response.json()); resolve(null)
SwitchStatements == << "text", "json", "null" >>

SwitchEntry(responseType) ==
  CASE responseType = "Text" -> 1
    [] responseType = "Json" -> 2
    [] OTHER -> 3

ExecutedStatements(responseType) ==
  SubSeq(SwitchStatements, SwitchEntry(responseType), Len(SwitchStatements))

\* The message of the HttpError of a non-success status
StatusMessage(method, status) ==
  "HTTP " \o method \o " request failed with status " \o ToString(status)

\* parseResponse without the test of response.ok
parseResponseNoOkTest(method, responseType, response) ==
  LET stmts == ExecutedStatements(responseType)
  IN  [error |-> Undefined,
       readers |-> SelectSeq(stmts, LAMBDA st : st # "null"),
       resolved |-> Some(Head(stmts))]

\* parseResponse without the return after reject: control goes on into the
\* switch
parseResponseNoReturn(method, responseType, response) ==
  LET stmts == ExecutedStatements(responseType)
  IN  IF ~ResponseOk(response)
        THEN [error |-> Some(createHttpError(response.status,
                                             StatusMessage(method, response.status))),
              readers |-> SelectSeq(stmts, LAMBDA st : st # "null"),
              resolved |-> Undefined]
        ELSE [error |-> Undefined,
              readers |-> SelectSeq(stmts, LAMBDA st : st # "null"),
              resolved |-> Some(Head(stmts))]

\* parseResponse whose promise takes the value of the last resolve call
parseResponseLastResolve(method, responseType, response) ==
  IF ~ResponseOk(response)
    THEN [error |-> Some(createHttpError(response.status,
                                         StatusMessage(method, response.status))),
          readers |-> << >>,
          resolved |-> Undefined]
    ELSE LET stmts == ExecutedStatements(responseType)
         IN  [error |-> Undefined,
              readers |-> SelectSeq(stmts, LAMBDA st : st # "null"),
              resolved |-> Some(stmts[Len(stmts)])]

\* What the callback does with a response:
\*   error    the error the returned promise is rejected with, if any
\*   readers  the body readers invoked, in order
\*   resolved the argument of the first resolve call (a promise settles once):
\*            "text" / "json" stand for the promise that reader returned
parseResponse(method, responseType, response) ==
  IF ~ResponseOk(response)
    THEN [error |-> Some(createHttpError(response.status,
                                         StatusMessage(method, response.status))),
          readers |-> << >>,
          resolved |-> Undefined]
    ELSE LET stmts == ExecutedStatements(responseType)
         IN  [error |-> Undefined,
              readers |-> SelectSeq(stmts, LAMBDA st : st # "null"),
              resolved |-> Some(Head(stmts))]

\* The settlement of the promise a body reader returned, when it is the first
\* reader of the body: fails is a failure of the network while reading.
ReadBody(reader, response, fails) ==
  IF fails
    THEN [error |-> Some(BodyReadError), value |-> JsNull]
    ELSE IF reader = "json"
      THEN JsonParse(response.body)
      ELSE [error |-> Undefined, value |-> JsString(response.body)]

(***************************************************************************)
(* extractFileName(disposition): disposition is an optional sequence of     *)
(* characters (headers.get gives null for a missing header).                *)
(***************************************************************************)
\* s.indexOf(pat) !== -1
StartsAt(s, pat, i) ==
  /\ i + Len(pat) - 1 <= Len(s)
  /\ SubSeq(s, i, i + Len(pat) - 1) = pat

Contains(s, pat) == \E i \in 1 .. Len(s) : StartsAt(s, pat, i)

Chars_attachment == << "a", "t", "t", "a", "c", "h", "m", "e", "n", "t" >>
Chars_filename == << "f", "i", "l", "e", "n", "a", "m", "e" >>

\* the first index >= i of a character of stop in s, or Len(s) + 1
RECURSIVE FirstOf(_, _, _)
FirstOf(s, stop, i) ==
  IF i > Len(s) \/ s[i] \in stop THEN i ELSE FirstOf(s, stop, i + 1)

\* /filename[^;=\n]*=/ matches at i: "filename", then the longest run without
\* ';', '=' and newline, then '='.  Gives the index after '=', or 0.
NameMatchAt(s, i) ==
  IF ~StartsAt(s, Chars_filename, i)
    THEN 0
    ELSE LET k == FirstOf(s, {";", "=", "\n"}, i + Len(Chars_filename))
         IN  IF k <= Len(s) /\ s[k] = "=" THEN k + 1 ELSE 0

\* ((['"]).*?\2|[^;\n]*) from index g: a quoted text up to the nearest same
\* quote on the line, quotes included; otherwise everything up to ';' or newline
GroupFrom(s, g) ==
  LET quoted == /\ g <= Len(s)
                /\ s[g] \in {"'", "\""}
                /\ LET j == FirstOf(s, {s[g], "\n"}, g + 1)
                   IN  j <= Len(s) /\ s[j] = s[g]
  IN  IF quoted
        THEN SubSeq(s, g, FirstOf(s, {s[g], "\n"}, g + 1))
        ELSE SubSeq(s, g, FirstOf(s, {";", "\n"}, g) - 1)

\* filenameRegex.exec(disposition): group 1 of the leftmost match, if any
FilenameGroup(s) ==
  LET starts == {i \in 1 .. Len(s) : NameMatchAt(s, i) # 0}
  IN  IF starts = {}
        THEN Undefined
        ELSE LET i == CHOOSE m \in starts : \A n \in starts : m <= n
             IN  Some(GroupFrom(s, NameMatchAt(s, i)))

\* matches[1].replace(/['"]/g, '')
StripQuotes(s) == SelectSeq(s, LAMBDA c : c \notin {"'", "\""})

extractFileName(disposition) ==
  IF IsDefined(disposition)
     /\ Get(disposition) # << >>
     /\ Contains(Get(disposition), Chars_attachment)
    THEN LET matches == FilenameGroup(Get(disposition))
         IN  IF IsDefined(matches) /\ Get(matches) # << >>
               THEN Some(Concat(StripQuotes(Get(matches))))
               ELSE Undefined
    ELSE Undefined

(***************************************************************************)
(* bluebird promises: resolve, reject and cancel act on a pending promise   *)
(* only.                                                                    *)
(***************************************************************************)
PromiseStates == {"none", "pending", "fulfilled", "rejected", "cancelled"}

isPending(p) == p = "pending"
\* a resolve that does not look at the state of the promise
PromiseResolveAnyState(p) == "fulfilled"
PromiseResolve(p) == IF isPending(p) THEN "fulfilled" ELSE p
\* a reject that does not look at the state of the promise
PromiseRejectAnyState(p) == "rejected"
PromiseReject(p) == IF isPending(p) THEN "rejected" ELSE p
PromiseCancel(p) == IF isPending(p) THEN "cancelled" ELSE p

(***************************************************************************)
(* The public operations: what each passes to sendRequest.  get and delete  *)
(* pass neither payload nor payloadType.                                    *)
(***************************************************************************)
SendOps == {"get", "post", "patch", "put", "delete",
            "postFormUrlEncoded", "postMultipartFormData"}
Ops == SendOps \cup {"downloadFile"}

\* postFormUrlEncoded passing the payload type of post
OperationFormAsJson(op) ==
  CASE op = "get" ->
         [method |-> "GET", responseType |-> "Json", payloadType |-> "undefined"]
    [] op = "post" ->
         [method |-> "POST", responseType |-> "Json", payloadType |-> "Json"]
    [] op = "patch" ->
         [method |-> "PATCH", responseType |-> "Json", payloadType |-> "Json"]
    [] op = "put" ->
         [method |-> "PUT", responseType |-> "Json", payloadType |-> "Json"]
    [] op = "delete" ->
         [method |-> "DELETE", responseType |-> "Json", payloadType |-> "undefined"]
    [] op = "postFormUrlEncoded" ->
         [method |-> "POST", responseType |-> "Json", payloadType |-> "Json"]
    [] op = "postMultipartFormData" ->
         [method |-> "POST", responseType |-> "Json", payloadType |-> "MultipartFormData"]

Operation(op) ==
  CASE op = "get" ->
         [method |-> "GET", responseType |-> "Json", payloadType |-> "undefined"]
    [] op = "post" ->
         [method |-> "POST", responseType |-> "Json", payloadType |-> "Json"]
    [] op = "patch" ->
         [method |-> "PATCH", responseType |-> "Json", payloadType |-> "Json"]
    [] op = "put" ->
         [method |-> "PUT", responseType |-> "Json", payloadType |-> "Json"]
    [] op = "delete" ->
         [method |-> "DELETE", responseType |-> "Json", payloadType |-> "undefined"]
    [] op = "postFormUrlEncoded" ->
         [method |-> "POST", responseType |-> "Json", payloadType |-> "UrlEncoded"]
    [] op = "postMultipartFormData" ->
         [method |-> "POST", responseType |-> "Json", payloadType |-> "MultipartFormData"]

\* payloadType || PayloadType.None: undefined and None (0) are falsy
PayloadTypeOrNone(payloadType) ==
  IF payloadType \in {"undefined", "None"} THEN "None" ELSE payloadType

(***************************************************************************)
(* The executor of sendRequest, run at the clock reading t on the heap hp.  *)
(* The arguments of fetch are evaluated in source order (headers, then      *)
(* body) before fetch is called; an exception leaves the executor and       *)
(* bluebird rejects the promise with it.                                    *)
(*   heap     the heap afterwards                                           *)
(*   result   the HttpResult constructed                                    *)
(*   request  what fetch was called with, if it was called; headerList is   *)
(*            the content of the header set at that moment, which fetch     *)
(*            copies into the request                                       *)
(*   error    the exception thrown, if any                                  *)
(*   log      the calls made, in order                                      *)
(***************************************************************************)
\* sendRequest calling fetch before the payload is encoded: the request leaves
\* whether or not the encoding throws
sendRequestExecutorFetchFirst(hp, t, url, method, headers, payload, payloadType) ==
  LET result == NewHttpResult(method, url, t)
      built  == buildRequestHeaders(hp, PayloadTypeOrNone(payloadType), headers)
      enc    == IF Truthy(payload)
                  THEN LET e == encodePayload(payload, payloadType)
                       IN  [called |-> TRUE, error |-> e.error, body |-> Some(e.body)]
                  ELSE [called |-> FALSE, error |-> Undefined, body |-> Undefined]
      log1   == << "new HttpResult", "buildRequestHeaders", "fetch" >>
  IN  [heap |-> built.heap, result |-> result,
       request |-> Some([url |-> url, method |-> Some(method),
                         headers |-> built.ref,
                         headerList |-> built.heap[built.ref],
                         body |-> Undefined]),
       error |-> enc.error,
       log |-> IF enc.called THEN Append(log1, "encodePayload") ELSE log1]

\* sendRequest encoding the payload before it builds the headers: an encode
\* error leaves the executor with the header set untouched
sendRequestExecutorEncodeFirst(hp, t, url, method, headers, payload, payloadType) ==
  LET result == NewHttpResult(method, url, t)
      enc    == IF Truthy(payload)
                  THEN LET e == encodePayload(payload, payloadType)
                       IN  [called |-> TRUE, error |-> e.error, body |-> Some(e.body)]
                  ELSE [called |-> FALSE, error |-> Undefined, body |-> Undefined]
      built  == buildRequestHeaders(hp, PayloadTypeOrNone(payloadType), headers)
      log1   == << "new HttpResult" >>
      log2   == IF enc.called THEN Append(log1, "encodePayload") ELSE log1
  IN  IF IsDefined(enc.error)
        THEN [heap |-> hp, result |-> result, request |-> Undefined,
              error |-> enc.error, log |-> log2]
        ELSE [heap |-> built.heap, result |-> result,
              request |-> Some([url |-> url, method |-> Some(method),
                                headers |-> built.ref,
                                headerList |-> built.heap[built.ref],
                                body |-> enc.body]),
              error |-> Undefined,
              log |-> log2 \o << "buildRequestHeaders", "fetch" >>]

sendRequestExecutor(hp, t, url, method, headers, payload, payloadType) ==
  LET result == NewHttpResult(method, url, t)
      built  == buildRequestHeaders(hp, PayloadTypeOrNone(payloadType), headers)
      enc    == IF Truthy(payload)
                  THEN LET e == encodePayload(payload, payloadType)
                       IN  [called |-> TRUE, error |-> e.error, body |-> Some(e.body)]
                  ELSE [called |-> FALSE, error |-> Undefined, body |-> Undefined]
      log1   == << "new HttpResult", "buildRequestHeaders" >>
      log2   == IF enc.called THEN Append(log1, "encodePayload") ELSE log1
  IN  IF IsDefined(enc.error)
        THEN [heap |-> built.heap, result |-> result, request |-> Undefined,
              error |-> enc.error, log |-> log2]
        ELSE [heap |-> built.heap, result |-> result,
              request |-> Some([url |-> url, method |-> Some(method),
                                headers |-> built.ref,
                                headerList |-> built.heap[built.ref],
                                body |-> enc.body]),
              error |-> Undefined, log |-> Append(log2, "fetch")]

\* The executor of downloadFile: fetch(url, {headers}) with neither method nor
\* body; the HttpResult is made for GET.
downloadFileExecutor(hp, t, url, headers) ==
  LET result == NewHttpResult("GET", url, t)
      built  == buildRequestHeaders(hp, "None", headers)
  IN  [heap |-> built.heap, result |-> result,
       request |-> Some([url |-> url, method |-> Undefined,
                         headers |-> built.ref,
                         headerList |-> built.heap[built.ref],
                         body |-> Undefined]),
       error |-> Undefined,
       log |-> << "new HttpResult", "buildRequestHeaders", "fetch" >>]

\* The method fetch uses: GET when the init names none
FetchMethod(request) ==
  IF IsDefined(request.method) THEN Get(request.method) ELSE "GET"

\* The then-callback of downloadFile, run on a response
\*   error  the exception thrown, if any
\*   data   the IFileBlob applied; blob is the promise response.blob() returned
downloadFileCallback(response) ==
  IF ~ResponseOk(response)
    THEN [error |-> Some(createHttpError(response.status, "Failed to download file.")),
          data |-> Undefined, log |-> << >>]
    ELSE [error |-> Undefined,
          data |-> Some([kind |-> "fileblob",
                         filename |-> extractFileName(response.disposition),
                         blob |-> "response.blob()"]),
          log |-> << "extractFileName", "response.blob()", "applyData", "resolve" >>]

\* safeCancelRequest without the test that a promise was passed: isPending is
\* called on undefined
safeCancelRequestNoGuard(p) ==
  [promise |-> IF IsDefined(p) /\ isPending(Get(p))
                 THEN Some(PromiseCancel(Get(p)))
                 ELSE p,
   threw |-> ~IsDefined(p),
   returned |-> Undefined]

\* safeCancelRequest(requestPromise): p is the state of the promise, or undefined
\* when no promise is passed.  Gives the state afterwards and what is returned.
safeCancelRequest(p) ==
  [promise |-> IF IsDefined(p) /\ isPending(Get(p))
                 THEN Some(PromiseCancel(Get(p)))
                 ELSE p,
   threw |-> FALSE,
   returned |-> Undefined]

(***************************************************************************)
(* Inputs.                                                                 *)
(***************************************************************************)
Urls == {"/a", "/b"}

\* The header sets the caller owns before any call: one Headers object, which
\* already names a Content-Type
CallerHeaders ==
  << << << "Authorization", "token" >>, << ContentType, "text/plain" >> >> >>

HeaderArgs == {Undefined} \cup {Some(i) : i \in 1 .. Len(CallerHeaders)}

FormAB == JsDict(<< << "a", << "1" >> >>, << "b", << "x", " ", "y" >> >> >>)
FormEmpty == JsDict(<< >>)

\* The payloads passed to each operation; null is a missing payload
PayloadsOf(op) ==
  CASE op \in {"post", "patch", "put"} -> {JsNull, JsObject(1), JsCyclic}
    [] op = "postFormUrlEncoded" -> {JsNull, FormAB, FormEmpty}
    [] op = "postMultipartFormData" -> {JsNull, JsFormData}
    [] OTHER -> {JsNull}

Statuses == {200, 404, 500}
Bodies == {JsonText(1), "null", "<html>"}

Chars(str) ==
  CASE str = "attachment; filename=\"r.pdf\"" ->
         << "a", "t", "t", "a", "c", "h", "m", "e", "n", "t", ";", " ",
            "f", "i", "l", "e", "n", "a", "m", "e", "=", "\"", "r", ".", "p", "d", "f", "\"" >>
    [] str = "attachment; filename=r.pdf; size=1" ->
         << "a", "t", "t", "a", "c", "h", "m", "e", "n", "t", ";", " ",
            "f", "i", "l", "e", "n", "a", "m", "e", "=", "r", ".", "p", "d", "f", ";",
            " ", "s", "i", "z", "e", "=", "1" >>
    [] str = "inline; filename=\"r.pdf\"" ->
         << "i", "n", "l", "i", "n", "e", ";", " ",
            "f", "i", "l", "e", "n", "a", "m", "e", "=", "\"", "r", ".", "p", "d", "f", "\"" >>
    [] str = "attachment" ->
         << "a", "t", "t", "a", "c", "h", "m", "e", "n", "t" >>

Dispositions ==
  {Undefined} \cup
  {Some(Chars(str)) : str \in {"attachment; filename=\"r.pdf\"",
                               "attachment; filename=r.pdf; size=1",
                               "inline; filename=\"r.pdf\"",
                               "attachment"}}

Response(status, disposition, body) ==
  [status |-> status, body |-> body, disposition |-> disposition]

(***************************************************************************)
(* State.                                                                  *)
(***************************************************************************)
VARIABLES
  now,        \* the clock, in milliseconds
  heap,       \* the Headers objects: heap[i] is the header list of object i
  call,       \* call[c]: the arguments of call c, once made
  pc,         \* pc[c]: where the pipeline of call c stands
  promise,    \* promise[c]: the state of the promise returned to the caller
  delivered,  \* delivered[c]: what the promise settled with, once settled
  result,     \* result[c]: the HttpResult of call c, once constructed
  fetched,    \* fetched[c]: what fetch was called with, once called
  carry,      \* carry[c]: what the pipeline waits on or hands on
  blob,       \* blob[c]: the promise response.blob() returned to downloadFile
  log,        \* log[c]: the calls made for call c, in order
  cancelled,  \* the last safeCancelRequest call: handle, state before, outcome
  made,       \* made[c]: the number of calls made through handle c so far
  env,        \* env[c]: what the transport and the body read did for call c
  probe       \* a function applied on its own: its arguments and what it gave

vars == << now, heap, call, pc, promise, delivered, result, fetched, carry,
           blob, log, cancelled, made, env, probe >>

\* the state of the client and of its caller
clientVars == << now, heap, call, pc, promise, delivered, result, fetched, carry,
                 blob, log, cancelled, made, env >>

\* Nothing heard yet from the transport
EnvPending ==
  [status |-> Undefined, body |-> Undefined, transport |-> "pending", read |-> "none"]

Init ==
  /\ now = 0
  /\ heap = CallerHeaders
  /\ call = [c \in Handles |-> Undefined]
  /\ pc = [c \in Handles |-> "idle"]
  /\ promise = [c \in Handles |-> "none"]
  /\ delivered = [c \in Handles |-> Undefined]
  /\ result = [c \in Handles |-> Undefined]
  /\ fetched = [c \in Handles |-> Undefined]
  /\ carry = [c \in Handles |-> Undefined]
  /\ blob = [c \in Handles |-> "none"]
  /\ log = [c \in Handles |-> << >>]
  /\ cancelled = Undefined
  /\ made = [c \in Handles |-> 0]
  /\ env = [c \in Handles |-> EnvPending]
  /\ probe = Undefined

\* The clock advances
Tick ==
  /\ now < MaxClock
  /\ now' = now + 1
  /\ UNCHANGED << heap, call, pc, promise, delivered, result, fetched, carry,
                  blob, log, cancelled, made, env, probe >>

\* What the promise of call c settles with
Envelope(c) == [kind |-> "envelope", of |-> c]
\* a rejection that reports whatever failed as a failure of the HTTP status
ReasonAsHttpError(e) == [kind |-> "error", error |-> createHttpError(500, e.message)]
Reason(e) == [kind |-> "error", error |-> e]

\* The effect of an executor's outcome x on the call made through handle c:
\* the promise is created; it is rejected at once when the executor threw, and
\* waits on fetch otherwise.  What was kept of the call the handle held before
\* goes with it.
Started(c, args, x) ==
  /\ heap' = x.heap
  /\ call' = [call EXCEPT ![c] = Some(args)]
  /\ result' = [result EXCEPT ![c] = Some(x.result)]
  /\ fetched' = [fetched EXCEPT ![c] = x.request]
  /\ log' = [log EXCEPT ![c] = x.log]
  /\ IF IsDefined(x.error)
       THEN /\ promise' = [promise EXCEPT ![c] = PromiseReject("pending")]
            /\ delivered' = [delivered EXCEPT ![c] = Some(Reason(Get(x.error)))]
            /\ pc' = [pc EXCEPT ![c] = "done"]
       ELSE /\ promise' = [promise EXCEPT ![c] = "pending"]
            /\ delivered' = [delivered EXCEPT ![c] = Undefined]
            /\ pc' = [pc EXCEPT ![c] = "sent"]
  /\ carry' = [carry EXCEPT ![c] = Undefined]
  /\ blob' = [blob EXCEPT ![c] = "none"]
  /\ made' = [made EXCEPT ![c] = @ + 1]
  /\ env' = [env EXCEPT ![c] = EnvPending]
  /\ cancelled' = IF IsDefined(cancelled) /\ Get(cancelled).handle = Some(c)
                    THEN Undefined ELSE cancelled
  /\ UNCHANGED << now, probe >>

\* The content, when the call is made, of the header set the caller passes
Supplied(headers) == IF IsDefined(headers) THEN heap[Get(headers)] ELSE << >>

\* get, post, patch, put, delete, postFormUrlEncoded, postMultipartFormData
SendRequest(c, op, url, headers, payload) ==
  /\ pc[c] \in {"idle", "done"}
  /\ made[c] < MaxCalls
  /\ LET o == Operation(op)
     IN  Started(c,
                 [op |-> op, url |-> url, headers |-> headers, payload |-> payload,
                  at |-> now, supplied |-> Supplied(headers)],
                 sendRequestExecutor(heap, now, url, o.method, headers, payload,
                                     o.payloadType))

\* downloadFile
DownloadFile(c, url, headers) ==
  /\ pc[c] \in {"idle", "done"}
  /\ made[c] < MaxCalls
  /\ Started(c,
             [op |-> "downloadFile", url |-> url, headers |-> headers,
              payload |-> JsNull, at |-> now, supplied |-> Supplied(headers)],
             downloadFileExecutor(heap, now, url, headers))

\* reject(err) or resolve(result) on the promise of call c
Settle(c, how, what) ==
  /\ promise' = [promise EXCEPT ![c] =
                   IF how = "resolve" THEN PromiseResolve(@) ELSE PromiseReject(@)]
  /\ delivered' = [delivered EXCEPT ![c] = IF isPending(promise[c]) THEN Some(what) ELSE @]

\* fetch rejects: the rejection passes the then-callbacks and reaches
\* .catch(reject)
FetchRejected(c) ==
  /\ pc[c] = "sent"
  /\ Settle(c, "reject", Reason(FetchError))
  /\ pc' = [pc EXCEPT ![c] = "done"]
  /\ log' = [log EXCEPT ![c] = Append(@, "reject")]
  /\ env' = [env EXCEPT ![c].transport = "rejected"]
  /\ UNCHANGED << now, heap, call, result, fetched, carry, blob, cancelled, made, probe >>

\* fetch resolves for a sendRequest call: the callback of parseResponse runs
FetchResolved(c, response) ==
  /\ pc[c] = "sent"
  /\ Get(call[c]).op \in SendOps
  /\ LET o == Operation(Get(call[c]).op)
         p == parseResponse(o.method, o.responseType, response)
     IN  /\ log' = [log EXCEPT ![c] =
                      Append(@, "parseResponse")
                        \o [i \in 1 .. Len(p.readers) |-> "response." \o p.readers[i] \o "()"]]
         /\ IF IsDefined(p.error)
              THEN /\ pc' = [pc EXCEPT ![c] = "rejecting"]
                   /\ carry' = [carry EXCEPT ![c] = Some([error |-> Get(p.error)])]
              ELSE /\ pc' = [pc EXCEPT ![c] = "reading"]
                   /\ carry' = [carry EXCEPT ![c] =
                                  Some([resolved |-> Get(p.resolved), response |-> response])]
  /\ env' = [env EXCEPT ![c].transport = "resolved",
                        ![c].status = Some(response.status),
                        ![c].body = Some(response.body)]
  /\ UNCHANGED << now, heap, call, promise, delivered, result, fetched, blob, cancelled, made, probe >>

\* The promise parseResponse resolved with settles (null is there at once):
\* with a value, the then-callback applies it and resolves; with an error,
\* .catch(reject) runs
Decoded(c, fails) ==
  /\ pc[c] = "reading"
  /\ LET w == Get(carry[c])
         r == IF w.resolved = "null"
                THEN [error |-> Undefined, value |-> JsNull]
                ELSE ReadBody(w.resolved, w.response, fails)
     IN  IF IsDefined(r.error)
           THEN /\ Settle(c, "reject", Reason(Get(r.error)))
                /\ log' = [log EXCEPT ![c] = Append(@, "reject")]
                /\ result' = result
                /\ env' = [env EXCEPT ![c].read = "error"]
           ELSE /\ result' = [result EXCEPT ![c] = Some(applyData(Get(@), r.value, now))]
                /\ Settle(c, "resolve", Envelope(c))
                /\ log' = [log EXCEPT ![c] = @ \o << "applyData", "resolve" >>]
                /\ env' = [env EXCEPT ![c].read = "value"]
  /\ pc' = [pc EXCEPT ![c] = "done"]
  /\ carry' = [carry EXCEPT ![c] = Undefined]
  /\ UNCHANGED << now, heap, call, fetched, blob, cancelled, made, probe >>

\* A rejection raised in a then-callback reaches .catch(reject)
CatchReject(c) ==
  /\ pc[c] = "rejecting"
  /\ Settle(c, "reject", Reason(Get(carry[c]).error))
  /\ pc' = [pc EXCEPT ![c] = "done"]
  /\ carry' = [carry EXCEPT ![c] = Undefined]
  /\ log' = [log EXCEPT ![c] = Append(@, "reject")]
  /\ UNCHANGED << now, heap, call, result, fetched, blob, cancelled, made, env, probe >>

\* fetch resolves for a downloadFile call: its then-callback runs
DownloadResolved(c, response) ==
  /\ pc[c] = "sent"
  /\ Get(call[c]).op = "downloadFile"
  /\ LET d == downloadFileCallback(response)
     IN  /\ log' = [log EXCEPT ![c] = @ \o d.log]
         /\ IF IsDefined(d.error)
              THEN /\ pc' = [pc EXCEPT ![c] = "rejecting"]
                   /\ carry' = [carry EXCEPT ![c] = Some([error |-> Get(d.error)])]
                   /\ UNCHANGED << result, promise, delivered, blob >>
              ELSE /\ pc' = [pc EXCEPT ![c] = "done"]
                   /\ carry' = carry
                   /\ result' = [result EXCEPT ![c] = Some(applyData(Get(@), Get(d.data), now))]
                   /\ blob' = [blob EXCEPT ![c] = "pending"]
                   /\ Settle(c, "resolve", Envelope(c))
  /\ env' = [env EXCEPT ![c].transport = "resolved",
                        ![c].status = Some(response.status)]
  /\ UNCHANGED << now, heap, call, fetched, cancelled, made, probe >>

\* A blob promise whose rejection is passed on to the promise of the call
BlobSettledIntoOuter(c, ok) ==
  /\ blob[c] = "pending"
  /\ blob' = [blob EXCEPT ![c] = IF ok THEN "fulfilled" ELSE "rejected"]
  /\ promise' = [promise EXCEPT ![c] = IF ok THEN @ ELSE "rejected"]
  /\ UNCHANGED << now, heap, call, pc, delivered, result, fetched, carry,
                  log, cancelled, made, env, probe >>

\* The blob promise of a download settles, on its own
BlobSettled(c, ok) ==
  /\ blob[c] = "pending"
  /\ blob' = [blob EXCEPT ![c] = IF ok THEN "fulfilled" ELSE "rejected"]
  /\ UNCHANGED << now, heap, call, pc, promise, delivered, result, fetched, carry,
                  log, cancelled, made, env, probe >>

\* The caller calls safeCancelRequest with the promise of call c, or with
\* nothing
SafeCancelRequest(handle) ==
  /\ IsDefined(handle) => promise[Get(handle)] # "none"
  /\ LET before == IF IsDefined(handle) THEN Some(promise[Get(handle)]) ELSE Undefined
         r      == safeCancelRequest(before)
     IN  /\ promise' = IF IsDefined(handle) /\ IsDefined(r.promise)
                         THEN [promise EXCEPT ![Get(handle)] = Get(r.promise)]
                         ELSE promise
         /\ cancelled' = Some([handle |-> handle, before |-> before,
                               threw |-> r.threw, returned |-> r.returned])
  /\ UNCHANGED << now, heap, call, pc, delivered, result, fetched, carry, blob, log, made, env, probe >>

\* The steps of a caller that holds its promises in the variables H and calls
\* the operations O on the urls U, the transport answering with the statuses
\* S, the bodies B and the Content-Disposition values D
NextOn(H, O, U, S, B, D) ==
  \/ Tick
  \/ \E c \in H, op \in O \cap SendOps, url \in U, headers \in HeaderArgs :
       \E payload \in PayloadsOf(op) : SendRequest(c, op, url, headers, payload)
  \/ \E c \in H, url \in U, headers \in HeaderArgs :
       "downloadFile" \in O /\ DownloadFile(c, url, headers)
  \/ \E c \in H : FetchRejected(c)
  \/ \E c \in H, status \in S, body \in B :
       FetchResolved(c, Response(status, Undefined, body))
  \/ \E c \in H, fails \in BOOLEAN : Decoded(c, fails)
  \/ \E c \in H : CatchReject(c)
  \/ \E c \in H, status \in S, disposition \in D :
       DownloadResolved(c, Response(status, disposition, ""))
  \/ \E c \in H, ok \in BOOLEAN : BlobSettled(c, ok)
  \/ \E handle \in {Undefined} \cup {Some(c) : c \in H} : SafeCancelRequest(handle)

\* A caller that keeps one promise at a time: every operation, every input
OneAtATime == {"h1"}

Next == NextOn(OneAtATime, Ops, Urls, Statuses, Bodies, Dispositions)

Spec == Init /\ [][Next]_vars

\* The transport settles every fetch, a body reader settles every read, and a
\* callback that is due runs
TransportSettles ==
  \E c \in OneAtATime :
    \/ FetchRejected(c)
    \/ \E status \in Statuses, body \in Bodies :
         FetchResolved(c, Response(status, Undefined, body))
    \/ \E status \in Statuses, disposition \in Dispositions :
         DownloadResolved(c, Response(status, disposition, ""))

BodyReadSettles == \E c \in OneAtATime, fails \in BOOLEAN : Decoded(c, fails)

CallbackRuns == \E c \in OneAtATime : CatchReject(c)

SpecLive ==
  /\ Init
  /\ [][Next]_vars
  /\ WF_vars(TransportSettles)
  /\ WF_vars(BodyReadSettles)
  /\ WF_vars(CallbackRuns)

\* A caller that keeps two promises, so that two calls are in flight together
ConcurrentOps == {"get", "post", "downloadFile"}

NextConcurrent ==
  NextOn(Handles, ConcurrentOps, {"/a"}, {200, 404}, {JsonText(1)}, {Undefined})

SpecConcurrent == Init /\ [][NextConcurrent]_vars

(***************************************************************************)
(* The Response Decoder on its own: parseResponse(method, responseType)     *)
(* applied to a response, for every method and every response type, and the *)
(* settlement of the promise it returns.                                    *)
(***************************************************************************)
\* What the promise returned by the callback settles with: rejected with the
\* error of a non-success status; otherwise it follows the first value it was
\* resolved with
DecoderSettles(out, response, fails) ==
  IF IsDefined(out.error)
    THEN [state |-> "rejected", error |-> out.error, value |-> Undefined]
    ELSE IF Get(out.resolved) = "null"
      THEN [state |-> "fulfilled", error |-> Undefined, value |-> Some(JsNull)]
      ELSE LET r == ReadBody(Get(out.resolved), response, fails)
           IN  IF IsDefined(r.error)
                 THEN [state |-> "rejected", error |-> r.error, value |-> Undefined]
                 ELSE [state |-> "fulfilled", error |-> Undefined, value |-> Some(r.value)]

ProbeStatuses == Statuses \cup {204, 304}

ProbeDecoder(method, responseType, response, fails) ==
  /\ probe = Undefined
  /\ LET out == parseResponse(method, responseType, response)
     IN  probe' = Some([fn |-> "parseResponse",
                        method |-> method,
                        responseType |-> responseType,
                        response |-> response,
                        out |-> out,
                        settled |-> DecoderSettles(out, response, fails)])
  /\ UNCHANGED clientVars

NextDecoder ==
  \E method \in HTTPMethods, responseType \in ResponseTypes,
     status \in ProbeStatuses, body \in Bodies, fails \in BOOLEAN :
    ProbeDecoder(method, responseType, Response(status, Undefined, body), fails)

SpecDecoder == Init /\ [][NextDecoder]_vars

(***************************************************************************)
(* The Header Builder on its own: buildRequestHeaders applied to a heap of  *)
(* two Headers objects, with and without a supplied header set.             *)
(***************************************************************************)
MaxHeaders == 2

HeaderEntries ==
  { << "Authorization", "token" >>,
    << ContentType, "text/plain" >>,
    << ContentType, HttpContentTypeJson >> }

HeaderLists ==
  UNION {[1 .. n -> HeaderEntries] : n \in 0 .. MaxHeaders}

ProbeHeaders(hp, payloadType, headers) ==
  /\ probe = Undefined
  /\ probe' = Some([fn |-> "buildRequestHeaders",
                    heap |-> hp,
                    payloadType |-> payloadType,
                    headers |-> headers,
                    out |-> buildRequestHeaders(hp, payloadType, headers)])
  /\ UNCHANGED clientVars

\* What the caller does to a header set it was handed
HeaderMutations ==
  {[kind |-> "append", entry |-> e] : e \in HeaderEntries}
    \cup {[name |-> n, kind |-> "delete"] : n \in {ContentType, "Authorization"}}

Mutated(list, mutation) ==
  IF mutation.kind = "append"
    THEN HeadersAppend(list, mutation.entry[1], mutation.entry[2])
    ELSE HeadersDelete(list, mutation.name)

\* buildRequestHeaders called twice with the same payload type and no headers;
\* the caller then changes the header set of the call named by target
ProbeHeadersTwice(hp, payloadType, target, mutation) ==
  /\ probe = Undefined
  /\ LET first  == buildRequestHeaders(hp, payloadType, Undefined)
         second == buildRequestHeaders(first.heap, payloadType, Undefined)
         ref    == IF target = 1 THEN first.ref ELSE second.ref
     IN  probe' = Some([fn |-> "buildRequestHeaders twice",
                        heap |-> hp,
                        payloadType |-> payloadType,
                        first |-> first,
                        second |-> second,
                        target |-> target,
                        after |-> [second.heap EXCEPT ![ref] = Mutated(@, mutation)]])
  /\ UNCHANGED clientVars

NextHeaders ==
  /\ probe = Undefined
  /\ \/ \E first \in HeaderLists, second \in HeaderLists, payloadType \in PayloadTypes,
            headers \in {Undefined, Some(1), Some(2)} :
         ProbeHeaders(<< first, second >>, payloadType, headers)
     \/ \E first \in HeaderLists, payloadType \in PayloadTypes, target \in {1, 2},
            mutation \in HeaderMutations :
         ProbeHeadersTwice(<< first >>, payloadType, target, mutation)

SpecHeaders == Init /\ [][NextHeaders]_vars

(***************************************************************************)
(* Properties.                                                             *)
(***************************************************************************)
Made(c) == IsDefined(call[c])
Args(c) == Get(call[c])
InLog(c, e) == \E i \in 1 .. Len(log[c]) : log[c][i] = e
Position(c, e) == CHOOSE i \in 1 .. Len(log[c]) : log[c][i] = e
Occurrences(c, e) == Cardinality({i \in 1 .. Len(log[c]) : log[c][i] = e})

\* The outcomes of the stages of call c, read from the arguments of the call
\* and from what the transport and the body read did
EncodeFails(c) ==
  /\ Args(c).op \in {"post", "patch", "put"}
  /\ Args(c).payload.kind = "cyclic"

StatusSuccess(c) ==
  /\ IsDefined(env[c].status)
  /\ Get(env[c].status) \in 200 .. 299

PipelineSucceeded(c) ==
  /\ ~EncodeFails(c)
  /\ env[c].transport = "resolved"
  /\ StatusSuccess(c)
  /\ Args(c).op = "downloadFile" \/ env[c].read = "value"

PipelineFailed(c) ==
  \/ EncodeFails(c)
  \/ env[c].transport = "rejected"
  \/ env[c].transport = "resolved" /\ ~StatusSuccess(c)
  \/ env[c].read = "error"

\* C1: the promise of a call that is not cancelled is fulfilled, with the
\* Result Envelope of the call, exactly when encoding, transport, status and
\* body read all succeeded; after an encode failure, a transport rejection, a
\* non-success status or a failed body read it is rejected with an error, and
\* no envelope is delivered at any moment.
C1_EnvelopeIffPipelineSucceeds ==
  \A c \in Handles :
    Made(c) =>
      /\ promise[c] = "fulfilled" =>
           /\ PipelineSucceeded(c)
           /\ delivered[c] = Some(Envelope(c))
           /\ IsDefined(Get(result[c]).data)
      /\ (pc[c] = "done" /\ promise[c] # "cancelled" /\ PipelineSucceeded(c)) =>
           promise[c] = "fulfilled"
      /\ (pc[c] = "done" /\ promise[c] # "cancelled" /\ PipelineFailed(c)) =>
           promise[c] = "rejected"
      /\ PipelineFailed(c) =>
           /\ promise[c] # "fulfilled"
           /\ IsDefined(delivered[c]) => Get(delivered[c]).kind = "error"
      /\ promise[c] = "rejected" =>
           /\ PipelineFailed(c)
           /\ IsDefined(delivered[c]) /\ Get(delivered[c]).kind = "error"
      /\ promise[c] \in {"pending", "cancelled"} => delivered[c] = Undefined
      /\ pc[c] = "done" => PipelineSucceeded(c) \/ PipelineFailed(c)

\* a call whose body read failed after a success status, and which was rejected
C1_Witness ==
  \E c \in Handles :
    /\ Made(c)
    /\ env[c].read = "error"
    /\ StatusSuccess(c)
    /\ promise[c] = "rejected"

\* C2: for every method and every response type, on a response whose ok flag
\* is false the decoder rejects with an HttpError that carries the status of
\* the response and the message "HTTP {method} request failed with status
\* {status}", and invokes no body reader.
C2_NonSuccessRejectsWithoutReading ==
  IsDefined(probe) /\ Get(probe).fn = "parseResponse" =>
    LET q == Get(probe)
        status == q.response.status
    IN  status \notin 200 .. 299 =>
          /\ q.out.error =
               Some([name |-> "HttpError",
                     status |-> Some(status),
                     message |-> "HTTP " \o q.method \o " request failed with status "
                                   \o ToString(status)])
          /\ q.out.readers = << >>
          /\ q.out.resolved = Undefined
          /\ q.settled.state = "rejected"
          /\ q.settled.error = q.out.error

\* a 404 answered to a PATCH that expects text
C2_Witness ==
  /\ IsDefined(probe)
  /\ Get(probe).fn = "parseResponse"
  /\ Get(probe).response.status = 404
  /\ Get(probe).method = "PATCH"
  /\ Get(probe).responseType = "Text"
  /\ Get(probe).settled.state = "rejected"

\* C3: safeCancelRequest returns undefined and does not throw, whatever the
\* handle; a pending handle becomes cancelled, and a handle that is settled or
\* cancelled keeps its state.
C3_SafeCancelIsSafe ==
  IsDefined(cancelled) =>
    LET k == Get(cancelled)
    IN  /\ ~k.threw
        /\ k.returned = Undefined
        /\ IsDefined(k.handle) =>
             promise[Get(k.handle)] =
               IF Get(k.before) = "pending" THEN "cancelled" ELSE Get(k.before)

\* safeCancelRequest called again on a handle it has cancelled
C3_Witness ==
  /\ IsDefined(cancelled)
  /\ IsDefined(Get(cancelled).handle)
  /\ Get(cancelled).before = Some("cancelled")
  /\ promise[Get(Get(cancelled).handle)] = "cancelled"

\* C4: a cancelled promise stays cancelled and is never given a value or an
\* error, whatever the transport, the body read and the callbacks of the
\* pipeline do afterwards (until the caller puts the promise of a new call in
\* the handle).
C4_CancelledNeverSettles ==
  [][\A c \in Handles :
       (promise[c] = "cancelled" /\ made' = made) =>
         /\ promise'[c] = "cancelled"
         /\ delivered[c] = Undefined
         /\ delivered'[c] = Undefined]_vars

\* a call cancelled in flight whose transport and body read then succeeded, and
\* whose callback applied the data
C4_Witness ==
  \E c \in Handles :
    /\ promise[c] = "cancelled"
    /\ pc[c] = "done"
    /\ env[c].read = "value"
    /\ InLog(c, "applyData")
    /\ InLog(c, "resolve")
    /\ delivered[c] = Undefined

\* C5: in a call made through sendRequest the headers are built and the payload
\* is encoded before fetch is called; when the encoding throws, fetch is not
\* called and the promise is rejected with the error thrown.
C5_EncodeBeforeTransport ==
  \A c \in Handles :
    (Made(c) /\ Args(c).op \in SendOps) =>
      /\ InLog(c, "buildRequestHeaders")
      /\ Truthy(Args(c).payload) <=> InLog(c, "encodePayload")
      /\ InLog(c, "fetch") <=> IsDefined(fetched[c])
      /\ InLog(c, "fetch") =>
           /\ Position(c, "buildRequestHeaders") < Position(c, "fetch")
           /\ InLog(c, "encodePayload") =>
                Position(c, "encodePayload") < Position(c, "fetch")
      /\ EncodeFails(c) =>
           /\ ~InLog(c, "fetch")
           /\ fetched[c] = Undefined
           /\ env[c].transport = "pending"
           /\ promise[c] = "rejected"
           /\ delivered[c] = Some(Reason(CyclicError))

\* a put whose payload cannot be serialized
C5_Witness ==
  \E c \in Handles :
    /\ Made(c)
    /\ Args(c).op = "put"
    /\ EncodeFails(c)
    /\ promise[c] = "rejected"

\* C6 (as claimed): whenever the payload of a call is absent, the request
\* handed to fetch has no body and a header set to which the client appended
\* nothing.
C6_AbsentPayloadNoBodyNoContentType ==
  \A c \in Handles :
    (Made(c) /\ ~Truthy(Args(c).payload) /\ IsDefined(fetched[c])) =>
      /\ Get(fetched[c]).body = Undefined
      /\ Get(fetched[c]).headerList = Args(c).supplied

\* The header set the claims expect for a payload type, from the supplied one
ExpectedHeaders(supplied, payloadType) ==
  CASE payloadType = "Json" ->
         Append(supplied, << "Content-Type", "application/json" >>)
    [] payloadType = "UrlEncoded" ->
         Append(supplied, << "Content-Type", "application/x-www-form-urlencoded" >>)
    [] OTHER -> supplied

\* C7: buildRequestHeaders appends one Content-Type entry, application/json for
\* Json and application/x-www-form-urlencoded for UrlEncoded, and nothing for
\* None and MultipartFormData; the entries already there are kept; the set
\* returned is the supplied one when there is one and a new, empty-based one
\* otherwise; no other header set changes.
C7_HeaderBuilder ==
  IsDefined(probe) /\ Get(probe).fn = "buildRequestHeaders" =>
    LET q        == Get(probe)
        supplied == IF IsDefined(q.headers) THEN q.heap[Get(q.headers)] ELSE << >>
    IN  /\ q.out.ref \in DOMAIN q.out.heap
        /\ q.out.heap[q.out.ref] = ExpectedHeaders(supplied, q.payloadType)
        /\ IsDefined(q.headers) =>
             /\ q.out.ref = Get(q.headers)
             /\ DOMAIN q.out.heap = DOMAIN q.heap
        /\ ~IsDefined(q.headers) =>
             /\ q.out.ref \notin DOMAIN q.heap
             /\ DOMAIN q.out.heap = DOMAIN q.heap \cup {q.out.ref}
        /\ \A r \in DOMAIN q.heap : r # q.out.ref => q.out.heap[r] = q.heap[r]

\* Json headers built on a supplied set that already names a Content-Type
C7_Witness ==
  /\ IsDefined(probe)
  /\ Get(probe).fn = "buildRequestHeaders"
  /\ Get(probe).payloadType = "Json"
  /\ Get(probe).headers = Some(2)
  /\ Get(probe).heap[2] = << << "Authorization", "token" >>, << "Content-Type", "text/plain" >> >>
  /\ Len(Get(probe).out.heap[2]) = 3

\* The table of the operations, as claimed
ClaimedOperation(op) ==
  CASE op = "get" -> [method |-> "GET", payloadType |-> "None"]
    [] op = "post" -> [method |-> "POST", payloadType |-> "Json"]
    [] op = "patch" -> [method |-> "PATCH", payloadType |-> "Json"]
    [] op = "put" -> [method |-> "PUT", payloadType |-> "Json"]
    [] op = "delete" -> [method |-> "DELETE", payloadType |-> "None"]
    [] op = "postFormUrlEncoded" -> [method |-> "POST", payloadType |-> "UrlEncoded"]
    [] op = "postMultipartFormData" -> [method |-> "POST", payloadType |-> "MultipartFormData"]
    [] op = "downloadFile" -> [method |-> "GET", payloadType |-> "None"]

BodyReaders == {"response.json()", "response.text()", "response.blob()"}
ReadersInvoked(c) == SelectSeq(log[c], LAMBDA e : e \in BodyReaders)

\* C8: every operation sends the method and the payload type of the table (the
\* headers of that payload type, the body in the encoding of that payload type)
\* and decodes a success response as Json (json() is the one reader invoked);
\* downloadFile sends a GET with the headers of payload type None and no body,
\* and does not go through parseResponse.
C8_OperationTable ==
  \A c \in Handles :
    Made(c) =>
      LET a   == Args(c)
          row == ClaimedOperation(a.op)
      IN  /\ Get(result[c]).request.method = row.method
          /\ IsDefined(fetched[c]) =>
               LET f == Get(fetched[c])
               IN  /\ FetchMethod(f) = row.method
                   /\ f.url = a.url
                   /\ f.headerList = ExpectedHeaders(a.supplied, row.payloadType)
                   /\ f.body = IF Truthy(a.payload)
                                 THEN Some(encodePayload(a.payload, row.payloadType).body)
                                 ELSE Undefined
          /\ a.op \in SendOps =>
               /\ env[c].transport = "resolved" <=> InLog(c, "parseResponse")
               /\ (InLog(c, "parseResponse") /\ StatusSuccess(c)) =>
                    ReadersInvoked(c) = << "response.json()" >>
               /\ env[c].read = "value" =>
                    Get(result[c]).data = Some(JsonParse(Get(env[c].body)).value)
          /\ a.op = "downloadFile" =>
               /\ ~InLog(c, "parseResponse")
               /\ IsDefined(fetched[c])
               /\ Get(fetched[c]).body = Undefined
               /\ \A i \in 1 .. Len(log[c]) :
                    log[c][i] \notin {"response.json()", "response.text()"}

\* a form posted and answered: a POST with the form Content-Type and the
\* url-encoded body, decoded with json()
C8_Witness ==
  \E c \in Handles :
    /\ Made(c)
    /\ Args(c).op = "postFormUrlEncoded"
    /\ IsDefined(fetched[c])
    /\ Get(fetched[c]).body = Some(JsString("a=1&b=x%20y"))
    /\ Args(c).headers = Undefined
    /\ Get(fetched[c]).headerList =
         << << "Content-Type", "application/x-www-form-urlencoded" >> >>
    /\ ReadersInvoked(c) = << "response.json()" >>
    /\ promise[c] = "fulfilled"

\* C9: in every state, the data, completedAt and duration of an HttpResult are
\* all absent or all set, with duration = completedAt - initiatedAt; its request
\* and its initiatedAt are those of its construction; applyData runs at most
\* once on it, only after a successful decode, and before the result is handed
\* to resolve.
C9_EnvelopeInvariant ==
  \A c \in Handles :
    IsDefined(result[c]) =>
      LET r == Get(result[c])
      IN  /\ \/ /\ r.data = Undefined
                /\ r.completedAt = Undefined
                /\ r.duration = Undefined
             \/ /\ IsDefined(r.data)
                /\ IsDefined(r.completedAt)
                /\ IsDefined(r.duration)
                /\ Get(r.duration) = Get(r.completedAt) - r.initiatedAt
          /\ r.request = [method |-> ClaimedOperation(Args(c).op).method,
                          url |-> Args(c).url]
          /\ r.initiatedAt = Args(c).at
          /\ Occurrences(c, "applyData") <= 1
          /\ InLog(c, "applyData") <=> IsDefined(r.data)
          /\ InLog(c, "applyData") => PipelineSucceeded(c)
          /\ InLog(c, "resolve") =>
               /\ InLog(c, "applyData")
               /\ Position(c, "applyData") < Position(c, "resolve")
          /\ promise[c] = "fulfilled" => InLog(c, "resolve")

\* a result completed one millisecond after it was initiated, and delivered
C9_Witness ==
  \E c \in Handles :
    /\ IsDefined(result[c])
    /\ promise[c] = "fulfilled"
    /\ Get(result[c]).initiatedAt = 0
    /\ Get(result[c]).completedAt = Some(1)
    /\ Get(result[c]).duration = Some(1)

\* C10 (as claimed): the envelope of a successful get holds the decoded JSON
\* body, a completedAt strictly after initiatedAt, and duration = completedAt -
\* initiatedAt >= 0.
C10_CompletedStrictlyLater ==
  \A c \in Handles :
    (Made(c) /\ Args(c).op = "get" /\ promise[c] = "fulfilled") =>
      LET r == Get(result[c])
      IN  /\ r.data = Some(JsonParse(Get(env[c].body)).value)
          /\ Get(r.completedAt) > r.initiatedAt
          /\ Get(r.duration) = Get(r.completedAt) - r.initiatedAt
          /\ Get(r.duration) >= 0

\* C10 (amended): the envelope of a successful get holds the decoded JSON body,
\* a completedAt not before initiatedAt (the same millisecond is possible), and
\* duration = completedAt - initiatedAt >= 0.
C10_CompletedNotEarlier ==
  \A c \in Handles :
    (Made(c) /\ Args(c).op = "get" /\ promise[c] = "fulfilled") =>
      LET r == Get(result[c])
      IN  /\ IsDefined(env[c].body)
          /\ JsonParse(Get(env[c].body)).error = Undefined
          /\ r.data = Some(JsonParse(Get(env[c].body)).value)
          /\ IsDefined(r.completedAt)
          /\ Get(r.completedAt) >= r.initiatedAt
          /\ r.initiatedAt = Args(c).at
          /\ Get(r.completedAt) <= now
          /\ r.duration = Some(Get(r.completedAt) - r.initiatedAt)
          /\ Get(r.duration) >= 0

\* a get answered {"id":1} in the millisecond after the call
C10_Witness ==
  \E c \in Handles :
    /\ Made(c)
    /\ Args(c).op = "get"
    /\ promise[c] = "fulfilled"
    /\ env[c].body = Some("{\"id\":1}")
    /\ Get(result[c]).data = Some(JsObject(1))
    /\ Get(result[c]).duration = Some(1)

(***************************************************************************)
(* downloadFile and the blob promise.                                      *)
(***************************************************************************)
\* the download of call c went through its then-callback to resolve(result)
DownloadCompleted(c) ==
  /\ Made(c)
  /\ Args(c).op = "downloadFile"
  /\ env[c].transport = "resolved"
  /\ StatusSuccess(c)

\* C11: the then-callback of downloadFile, on a success response, attaches the
\* promise response.blob() returned, applies the data and resolves in one run,
\* while that promise is still pending: the blob promise exists exactly for
\* the calls that got there; the result then holds the promise itself, has its
\* completedAt, and the promise of the call is fulfilled unless the caller
\* cancelled it; and the settlement of the blob promise, a rejection included,
\* changes neither the promise of the call, nor what it delivered, nor the
\* result.
C11_OuterDoesNotWaitOnBlob ==
  /\ [](\A c \in Handles :
          /\ blob[c] # "none" <=> DownloadCompleted(c)
          /\ DownloadCompleted(c) =>
               /\ pc[c] = "done"
               /\ promise[c] \in {"fulfilled", "cancelled"}
               /\ promise[c] = "fulfilled" => delivered[c] = Some(Envelope(c))
               /\ IsDefined(Get(result[c]).completedAt)
               /\ Get(Get(result[c]).data).blob = "response.blob()"
               /\ ReadersInvoked(c) = << "response.blob()" >>
               /\ Position(c, "response.blob()") < Position(c, "resolve"))
  /\ [][\A c \in Handles :
          (blob[c] = "pending" /\ blob'[c] \in {"fulfilled", "rejected"}) =>
            /\ promise'[c] = promise[c]
            /\ delivered'[c] = delivered[c]
            /\ result'[c] = result[c]]_vars

\* a download fulfilled with its envelope, whose blob promise rejected later
C11_Witness ==
  \E c \in Handles :
    /\ DownloadCompleted(c)
    /\ promise[c] = "fulfilled"
    /\ blob[c] = "rejected"
    /\ delivered[c] = Some(Envelope(c))

(***************************************************************************)
(* The filename of a download on its own: the then-callback of downloadFile *)
(* run on a success response, for the Content-Disposition values made of up *)
(* to MaxTokens pieces, and for a response without the header.              *)
(***************************************************************************)
MaxTokens == 6

DispositionTokens == {"attachment", "inline", "; ", "filename=", "\"", "r"}

TokenChars(token) ==
  CASE token = "attachment" -> Chars_attachment
    [] token = "inline" -> << "i", "n", "l", "i", "n", "e" >>
    [] token = "; " -> << ";", " " >>
    [] token = "filename=" -> Chars_filename \o << "=" >>
    [] token = "\"" -> << "\"" >>
    [] token = "r" -> << "r" >>

RECURSIVE Flatten(_)
Flatten(tokens) ==
  IF tokens = << >> THEN << >> ELSE TokenChars(Head(tokens)) \o Flatten(Tail(tokens))

\* tokens is the header value in pieces, or undefined for a missing header
ProbeFileName(tokens) ==
  /\ probe = Undefined
  /\ LET disposition == IF IsDefined(tokens) THEN Some(Flatten(Get(tokens))) ELSE Undefined
     IN  probe' = Some([fn |-> "downloadFile",
                        tokens |-> tokens,
                        disposition |-> disposition,
                        out |-> downloadFileCallback(Response(200, disposition, ""))])
  /\ UNCHANGED clientVars

NextFileName ==
  /\ probe = Undefined
  /\ \E tokens \in {Undefined} \cup
                   {Some(t) : t \in UNION {[1 .. n -> DispositionTokens] : n \in 1 .. MaxTokens}} :
       ProbeFileName(tokens)

SpecFileName == Init /\ [][NextFileName]_vars

\* The header values "type" and "type; filename=value", the value being a name
\* or a name between double quotes
NameTokens == {"r", "attachment", "inline"}

IsName(tokens) ==
  /\ tokens # << >>
  /\ \A i \in 1 .. Len(tokens) : tokens[i] \in NameTokens

WellFormedDisposition(tokens) ==
  /\ Len(tokens) >= 1
  /\ tokens[1] \in {"attachment", "inline"}
  /\ Len(tokens) > 1 =>
       /\ Len(tokens) >= 4
       /\ tokens[2] = "; "
       /\ tokens[3] = "filename="
       /\ LET value == SubSeq(tokens, 4, Len(tokens))
          IN  \/ IsName(value)
              \/ /\ Len(value) >= 3
                 /\ value[1] = "\""
                 /\ value[Len(value)] = "\""
                 /\ IsName(SubSeq(value, 2, Len(value) - 1))

\* The filename the claim gives for such a value: none unless the disposition is
\* attachment and there is a filename parameter; otherwise the value of the
\* parameter without its surrounding quotes
ClaimedFileName(tokens) ==
  IF tokens[1] # "attachment" \/ Len(tokens) = 1
    THEN Undefined
    ELSE LET value == SubSeq(tokens, 4, Len(tokens))
             name  == IF value[1] = "\"" THEN SubSeq(value, 2, Len(value) - 1) ELSE value
         IN  Some(Concat(Flatten(name)))

\* C12 (as claimed), on a missing header and on the header values "type" and
\* "type; filename=value": the filename of the downloaded file is undefined when
\* the header is missing, when the disposition is not attachment or when there
\* is no filename parameter, and is otherwise the value of the filename
\* parameter with its surrounding quotes stripped.
C12_FileNameOfAttachmentOnly ==
  (IsDefined(probe) /\ Get(probe).fn = "downloadFile") =>
    LET q        == Get(probe)
        filename == Get(q.out.data).filename
    IN  /\ ~IsDefined(q.tokens) => filename = Undefined
        /\ (IsDefined(q.tokens) /\ WellFormedDisposition(Get(q.tokens))) =>
             filename = ClaimedFileName(Get(q.tokens))

(***************************************************************************)
(* The Payload Encoder on its own: the executor of sendRequest run for      *)
(* post, postFormUrlEncoded and postMultipartFormData on the payloads of    *)
(* each, the forms being the mappings of up to MaxEntries entries whose     *)
(* values have up to MaxValueLen characters.                                *)
(***************************************************************************)
MaxEntries == 3
MaxValueLen == 1

FormKeys == {"a", "b c"}
FormChars == {"x", " ", "&"}
FormValues == UNION {[1 .. n -> FormChars] : n \in 0 .. MaxValueLen}
FormPairs == {<< k, v >> : k \in FormKeys, v \in FormValues}
Forms == {JsDict(es) : es \in UNION {[1 .. n -> FormPairs] : n \in 0 .. MaxEntries}}

EncoderPayloadsOf(op) ==
  CASE op = "post" -> {JsObject(n) : n \in 1 .. MaxId} \cup {JsCyclic}
    [] op = "postFormUrlEncoded" -> Forms \cup {FormAB, FormEmpty}
    [] op = "postMultipartFormData" -> {JsFormData}

ProbeEncoder(op, payload) ==
  /\ probe = Undefined
  /\ LET o == Operation(op)
     IN  probe' = Some([fn |-> "sendRequest",
                        op |-> op,
                        payload |-> payload,
                        out |-> sendRequestExecutor(heap, now, "/a", o.method, Undefined,
                                                    payload, o.payloadType)])
  /\ UNCHANGED clientVars

NextEncoder ==
  /\ probe = Undefined
  /\ \E op \in {"post", "postFormUrlEncoded", "postMultipartFormData"} :
       \E payload \in EncoderPayloadsOf(op) : ProbeEncoder(op, payload)

SpecEncoder == Init /\ [][NextEncoder]_vars

\* The body the claim gives for a form: entry i written key=value, the value
\* percent-encoded, with '&' before every entry but the first
RECURSIVE JoinedFrom(_, _)
JoinedFrom(entries, i) ==
  IF i > Len(entries)
    THEN ""
    ELSE (IF i = 1 THEN "" ELSE "&")
           \o entries[i][1] \o "=" \o encodeURIComponent(entries[i][2])
           \o JoinedFrom(entries, i + 1)

\* C13: the body handed to fetch is, for a form, its entries in order, each
\* written key=value with the value percent-encoded and the key as it is, with
\* one '&' between two entries and none before the first or after the last;
\* for a Json payload that can be serialized, its JSON text; for multipart form
\* data, the payload itself.
C13_EncodedBody ==
  (IsDefined(probe) /\ Get(probe).fn = "sendRequest") =>
    LET q == Get(probe)
    IN  /\ q.op = "postFormUrlEncoded" =>
             /\ q.out.error = Undefined
             /\ IsDefined(q.out.request)
             /\ Get(q.out.request).body = Some(JsString(JoinedFrom(q.payload.entries, 1)))
        /\ (q.op = "post" /\ q.payload.kind = "object") =>
             /\ q.out.error = Undefined
             /\ IsDefined(q.out.request)
             /\ Get(q.out.request).body = Some(JsString(JsonText(q.payload.id)))
        /\ q.op = "postMultipartFormData" =>
             /\ q.out.error = Undefined
             /\ IsDefined(q.out.request)
             /\ Get(q.out.request).body = Some(q.payload)

\* the form {a: 1, b: "x y"} sent as a=1&b=x%20y
C13_Witness ==
  /\ IsDefined(probe)
  /\ Get(probe).fn = "sendRequest"
  /\ Get(probe).payload = FormAB
  /\ IsDefined(Get(probe).out.request)
  /\ Get(Get(probe).out.request).body = Some(JsString("a=1&b=x%20y"))

(***************************************************************************)
(* Two calls in flight.                                                    *)
(***************************************************************************)
\* What the executor of call c does when the call is the only one made: it
\* runs on the header sets as the caller owned them before any call
Alone(c) ==
  LET a == Args(c)
  IN  IF a.op = "downloadFile"
        THEN downloadFileExecutor(CallerHeaders, a.at, a.url, a.headers)
        ELSE sendRequestExecutor(CallerHeaders, a.at, a.url, Operation(a.op).method,
                                 a.headers, a.payload, Operation(a.op).payloadType)

\* C14 (as claimed): whatever the other call did, the header set a call hands
\* to fetch is the one it hands to fetch when it runs alone, and its
\* HttpResult is the one it has when it runs alone: the same request and
\* initiatedAt, and the data decoded from its own response.
C14_CallsIndependent ==
  \A c \in Handles :
    Made(c) =>
      /\ IsDefined(fetched[c]) <=> IsDefined(Alone(c).request)
      /\ IsDefined(fetched[c]) =>
           Get(fetched[c]).headerList = Get(Alone(c).request).headerList
      /\ Get(result[c]).request = Alone(c).result.request
      /\ Get(result[c]).initiatedAt = Alone(c).result.initiatedAt
      /\ (Args(c).op \in SendOps /\ env[c].read = "value") =>
           Get(result[c]).data = Some(JsonParse(Get(env[c].body)).value)

\* C15: two calls of buildRequestHeaders with the same payload type and no
\* headers hand back two Headers objects, both new and not the same one, with
\* the same content (the Content-Type of the payload type, or nothing); an
\* append to or a delete from either leaves the other as it was, and leaves
\* every header set of the caller as it was.
C15_TwoCallsTwoInstances ==
  (IsDefined(probe) /\ Get(probe).fn = "buildRequestHeaders twice") =>
    LET q      == Get(probe)
        one    == q.first.ref
        two    == q.second.ref
        other  == IF q.target = 1 THEN two ELSE one
        before == q.second.heap
    IN  /\ one # two
        /\ one \notin DOMAIN q.heap
        /\ two \notin DOMAIN q.heap
        /\ before[one] = before[two]
        /\ before[one] = ExpectedHeaders(<< >>, q.payloadType)
        /\ q.first.heap[one] = before[one]
        /\ q.after[other] = before[other]
        /\ \A r \in DOMAIN q.heap : q.after[r] = q.heap[r]

\* two Json header sets, the first of which the caller then emptied of its
\* Content-Type, the second still naming it
C15_Witness ==
  /\ IsDefined(probe)
  /\ Get(probe).fn = "buildRequestHeaders twice"
  /\ Get(probe).payloadType = "Json"
  /\ Get(probe).target = 1
  /\ Get(probe).after[Get(probe).first.ref] = << >>
  /\ Get(probe).after[Get(probe).second.ref] = << << "Content-Type", "application/json" >> >>

(***************************************************************************)
(* The switch of the Response Decoder.                                     *)
(***************************************************************************)
\* The body reader the claims give each response type
ClaimedReaders(responseType) ==
  CASE responseType = "Text" -> << "text" >>
    [] responseType = "Json" -> << "json" >>
    [] OTHER -> << >>

\* C16 (as claimed): on a success response the decoder invokes text() alone
\* for Text, json() alone for Json and no reader for None.
C16_AtMostOneReader ==
  (IsDefined(probe) /\ Get(probe).fn = "parseResponse"
     /\ ResponseOk(Get(probe).response)) =>
    Get(probe).out.readers = ClaimedReaders(Get(probe).responseType)

\* C17: on a success response the promise of the decoder settles as the
\* branch of the response type says, whatever the branches after it do: for
\* Json with what json() gives (the parsed body, or its error), for Text with
\* what text() gives (the body as a string, or its error), for None with null.
C17_ValueOfMatchingBranch ==
  (IsDefined(probe) /\ Get(probe).fn = "parseResponse"
     /\ ResponseOk(Get(probe).response)) =>
    LET q    == Get(probe)
        body == q.response.body
    IN  /\ q.responseType = "None" =>
             /\ q.settled.state = "fulfilled"
             /\ q.settled.value = Some(JsNull)
        /\ (q.responseType = "Text" /\ q.settled.state = "fulfilled") =>
             q.settled.value = Some(JsString(body))
        /\ (q.responseType = "Json" /\ q.settled.state = "fulfilled") =>
             /\ JsonParse(body).error = Undefined
             /\ q.settled.value = Some(JsonParse(body).value)
        /\ (q.responseType = "Json" /\ q.settled.state = "rejected") =>
             q.settled.error \in {Some(JsonSyntaxError), Some(BodyReadError)}
        /\ (q.responseType = "Text" /\ q.settled.state = "rejected") =>
             q.settled.error = Some(BodyReadError)
        /\ q.settled.state \in {"fulfilled", "rejected"}
        /\ q.settled.state = "fulfilled" <=> q.settled.error = Undefined
        /\ (q.responseType = "Json" /\ JsonParse(body).error # Undefined) =>
             q.settled.state = "rejected"

\* a Text response: text(), json() and resolve(null) all ran, and the promise
\* is fulfilled with the text
C17_Witness ==
  /\ IsDefined(probe)
  /\ Get(probe).fn = "parseResponse"
  /\ Get(probe).responseType = "Text"
  /\ Get(probe).out.readers = << "text", "json" >>
  /\ Get(probe).settled.state = "fulfilled"
  /\ Get(probe).settled.value = Some(JsString("<html>"))

(***************************************************************************)
(* The error of a failed call.                                             *)
(***************************************************************************)
\* The HttpError of the status of the response of call c
StatusError(c) ==
  createHttpError(Get(env[c].status),
                  IF Args(c).op = "downloadFile"
                    THEN "Failed to download file."
                    ELSE StatusMessage(ClaimedOperation(Args(c).op).method,
                                       Get(env[c].status)))

\* C18: a rejected call delivers the error of the stage that failed, as that
\* stage raised it: the TypeError of JSON.stringify after an encode failure,
\* the rejection of fetch after a transport failure, the HttpError of the
\* status after a non-success status, and after a success status the error
\* of the body read (the SyntaxError of a malformed body or the error of the
\* read), which is not an HttpError and carries no status.
C18_ErrorOfFailingStage ==
  \A c \in Handles :
    (Made(c) /\ promise[c] = "rejected") =>
      /\ IsDefined(delivered[c])
      /\ Get(delivered[c]).kind = "error"
      /\ LET e == Get(delivered[c]).error
         IN  /\ EncodeFails(c) => e = CyclicError
             /\ env[c].transport = "rejected" => e = FetchError
             /\ (env[c].transport = "resolved" /\ ~StatusSuccess(c)) => e = StatusError(c)
             /\ env[c].read = "error" =>
                  /\ StatusSuccess(c)
                  /\ e \in {JsonSyntaxError, BodyReadError}
                  /\ e = JsonSyntaxError => JsonParse(Get(env[c].body)).error = Some(e)
                  /\ e.name # "HttpError"
                  /\ e.status = Undefined
             /\ e.name = "HttpError" =>
                  (env[c].transport = "resolved" /\ ~StatusSuccess(c))

\* a 200 response whose body is not JSON: the call is rejected with the
\* SyntaxError of json()
C18_Witness ==
  \E c \in Handles :
    /\ Made(c)
    /\ promise[c] = "rejected"
    /\ env[c].status = Some(200)
    /\ env[c].body = Some("<html>")
    /\ delivered[c] = Some(Reason(JsonSyntaxError))

(***************************************************************************)
(* The life of a promise.                                                  *)
(***************************************************************************)
Settled(c) == promise[c] \in {"fulfilled", "rejected"}

\* C19: while a handle holds the promise of one call, the promise changes
\* state only from pending; once fulfilled or rejected it keeps its state and
\* what it delivered, whatever resolve and reject calls follow; it is
\* fulfilled only after the request was handed to fetch; and, the transport
\* and the body read settling, a pending promise is in the end fulfilled or
\* rejected, unless the caller cancelled it.
C19_SettlesOnceAndEventually ==
  /\ [][\A c \in Handles :
          made'[c] = made[c] =>
            /\ promise'[c] # promise[c] => promise[c] = "pending"
            /\ Settled(c) => delivered'[c] = delivered[c]
            /\ promise'[c] = "fulfilled" => IsDefined(fetched[c])]_vars
  /\ \A c \in Handles :
       (promise[c] = "pending") ~> (Settled(c) \/ promise[c] = "cancelled")
  /\ \A c \in Handles :
       (pc[c] \in {"sent", "reading", "rejecting"}) ~> (pc[c] = "done")

\* a promise rejected for the status of the response, the pipeline at its end
C19_Witness ==
  \E c \in Handles :
    /\ Made(c)
    /\ pc[c] = "done"
    /\ promise[c] = "rejected"
    /\ env[c].status = Some(500)
    /\ Occurrences(c, "reject") = 1

(***************************************************************************)
(* What a call that fails in encodePayload leaves behind.                  *)
(***************************************************************************)
\* the Headers objects the caller owns
CallerOwned == 1 .. Len(CallerHeaders)

\* the step is a call through handle c whose payload cannot be encoded
EncodeErrorCall(c) ==
  /\ made'[c] = made[c] + 1
  /\ Get(call'[c]).op \in {"post", "patch", "put"}
  /\ Get(call'[c]).payload.kind = "cyclic"

\* C20: a call whose payload cannot be encoded calls buildRequestHeaders
\* before encodePayload and never calls fetch; its promise is rejected with
\* the encode error; the header set the caller passed has Content-Type:
\* application/json appended to it, and every other Headers object of the
\* caller, and what the caller holds of its other calls, is as it was.
C20_EncodeErrorLeavesHeaderAppended ==
  [][\A c \in Handles :
       EncodeErrorCall(c) =>
         /\ log'[c] = << "new HttpResult", "buildRequestHeaders", "encodePayload" >>
         /\ fetched'[c] = Undefined
         /\ promise'[c] = "rejected"
         /\ delivered'[c] = Some([kind |-> "error", error |-> CyclicError])
         /\ \A i \in CallerOwned :
              heap'[i] = IF Get(call'[c]).headers = Some(i)
                           THEN Append(heap[i], << "Content-Type", "application/json" >>)
                           ELSE heap[i]
         /\ \A d \in Handles \ {c} :
              /\ promise'[d] = promise[d]
              /\ delivered'[d] = delivered[d]
              /\ result'[d] = result[d]
              /\ call'[d] = call[d]]_vars

\* a call with the caller's header set failed to encode its payload: no
\* request was made, and the header set has one entry more than it had
C20_Witness ==
  \E c \in Handles :
    /\ Made(c)
    /\ EncodeFails(c)
    /\ Args(c).headers = Some(1)
    /\ promise[c] = "rejected"
    /\ fetched[c] = Undefined
    /\ heap[1] = Append(Args(c).supplied, << "Content-Type", "application/json" >>)
    /\ heap[1] # CallerHeaders[1]

====
